---- MODULE Spec2Model ----
(***************************************************************************)
(* A model of the FreeCell engine of src/fc.py: the deterministic deal,    *)
(* the three move kinds, the move log with UNDO / ZAP / REPLAY, the win    *)
(* test and the read-eval loop.                                            *)
(*                                                                         *)
(* Python strings are modelled as sequences of one-character strings, so   *)
(* that strip / upper / split / join / startswith / int are computed the   *)
(* way the interpreter computes them.                                      *)
(***************************************************************************)
EXTENDS Integers, Sequences, FiniteSets, TLC

\* seed, moves, open, fond, cascades, layout: the fields of the Game object.
\* applied: how many moves the do_* methods applied since the last reset.
\* logfile: the contents of freecell.log (NoFile until log_move writes it).
\* pc: "run" while the loop reads commands, "exit" after sys.exit, or the
\*     name of the exception that left the program.
\* out: what the last command printed, one outcome per entry.
\* cmd: the branch of one_line the last line read took (CommandKind), "WIN" or
\*      "EOF" when the loop ended without reading one, "" before any.
VARIABLES seed, moves, open, fond, cascades, layout, applied, logfile, pc, out, cmd

vars == <<seed, moves, open, fond, cascades, layout, applied, logfile, pc, out, cmd>>

(***************************************************************************)
(* Program constants (class Game).                                         *)
(***************************************************************************)
DEFAULT_SEED == 11982
N_CARDS == 52
N_SUITS == 4
N_RANKS == 12
N_OPEN == 4
N_CASCADES == 8

WHERE_FOUNDATION == "F"
WHERE_OPEN == "O"
WHERE_CASCADE == "C"

RANK_STR == <<"A", "2", "3", "4", "5", "6", "7", "8", "9", "T", "J", "Q", "K">>
SUIT_STR == <<"C", "D", "H", "S">>

(***************************************************************************)
(* Strings.                                                                *)
(***************************************************************************)
LOWER == <<"a", "b", "c", "d", "e", "f", "g", "h", "i", "j", "k", "l", "m",
           "n", "o", "p", "q", "r", "s", "t", "u", "v", "w", "x", "y", "z">>
UPPER == <<"A", "B", "C", "D", "E", "F", "G", "H", "I", "J", "K", "L", "M",
           "N", "O", "P", "Q", "R", "S", "T", "U", "V", "W", "X", "Y", "Z">>

\* str.upper() on one character
UpperOf == [ch \in {LOWER[k] : k \in 1..26} |-> UPPER[CHOOSE k \in 1..26 : LOWER[k] = ch]]

UpperChar(ch) == IF ch \in DOMAIN UpperOf THEN UpperOf[ch] ELSE ch

\* str.upper()
StrUpper(s) == [k \in 1..Len(s) |-> UpperChar(s[k])]

RECURSIVE LStrip(_)
LStrip(s) == IF s # <<>> /\ Head(s) = " " THEN LStrip(Tail(s)) ELSE s

RECURSIVE RStrip(_)
RStrip(s) ==
  IF s # <<>> /\ s[Len(s)] = " " THEN RStrip(SubSeq(s, 1, Len(s) - 1)) ELSE s

\* str.strip()
StrStrip(s) == RStrip(LStrip(s))

\* str.split(sep) for a one-character separator: always at least one piece,
\* empty pieces kept.
\* SplitFrom: the pieces of s[lo..hi], found around the separator next to the
\* middle so that the recursion stays shallow on a long line.
RECURSIVE SplitFrom(_, _, _, _)
SplitFrom(s, sep, lo, hi) ==
  IF \E a \in lo..hi : s[a] = sep
  THEN LET mid == (lo + hi) \div 2
           j == IF \E a \in mid..hi : s[a] = sep
                THEN CHOOSE a \in mid..hi :
                       s[a] = sep /\ \A b \in mid..(a - 1) : s[b] # sep
                ELSE CHOOSE a \in lo..(mid - 1) :
                       s[a] = sep /\ \A b \in (a + 1)..(mid - 1) : s[b] # sep
       IN  SplitFrom(s, sep, lo, j - 1) \o SplitFrom(s, sep, j + 1, hi)
  ELSE <<SubSeq(s, lo, hi)>>

StrSplit(s, sep) == SplitFrom(s, sep, 1, Len(s))

\* sep.join(items), the two halves of a long list joined apart
RECURSIVE StrJoin(_, _)
StrJoin(sep, items) ==
  IF items = <<>> THEN <<>>
  ELSE IF Len(items) = 1 THEN items[1]
  ELSE LET h == Len(items) \div 2
       IN  StrJoin(sep, SubSeq(items, 1, h)) \o sep
             \o StrJoin(sep, SubSeq(items, h + 1, Len(items)))

\* full.startswith(prefix)
StartsWith(full, prefix) ==
  /\ Len(prefix) <= Len(full)
  /\ SubSeq(full, 1, Len(prefix)) = prefix

DIGITS == <<"0", "1", "2", "3", "4", "5", "6", "7", "8", "9">>

IsDigit(ch) == \E k \in 1..10 : DIGITS[k] = ch

DigitVal(ch) == (CHOOSE k \in 1..10 : DIGITS[k] = ch) - 1

RECURSIVE DigitsVal(_, _)
DigitsVal(s, acc) ==
  IF s = <<>> THEN acc ELSE DigitsVal(Tail(s), acc * 10 + DigitVal(Head(s)))

\* int(tok): an optional sign and at least one decimal digit, anything else
\* raises ValueError.
IntOk(tok) ==
  LET body == IF tok # <<>> /\ Head(tok) \in {"-", "+"} THEN Tail(tok) ELSE tok
  IN  body # <<>> /\ \A k \in 1..Len(body) : IsDigit(body[k])

IntVal(tok) ==
  IF Head(tok) = "-" THEN 0 - DigitsVal(Tail(tok), 0)
  ELSE IF Head(tok) = "+" THEN DigitsVal(Tail(tok), 0)
  ELSE DigitsVal(tok, 0)

(***************************************************************************)
(* Cards.                                                                  *)
(***************************************************************************)
Card(s, r) == [suit |-> s, rank |-> r]

\* every card the deck integers 0..51 map to
Cards == {Card(c % N_SUITS, c \div N_SUITS) : c \in 0..(N_CARDS - 1)}

repr_card(card) == <<RANK_STR[card.rank + 1], SUIT_STR[card.suit + 1]>>

\* a can_stack that compares the ranks only
can_stack_RankOnly(card, under) == (under.rank - card.rank) = 1

can_stack(card, under) ==
  IF (under.rank - card.rank) # 1 THEN FALSE
  ELSE IF under.suit \in {0, 3} /\ card.suit \notin {1, 2} THEN FALSE
  ELSE IF under.suit \in {1, 2} /\ card.suit \notin {0, 3} THEN FALSE
  ELSE TRUE

\* Stack.peek(): None for an empty stack
None == [suit |-> -1, rank |-> -1]

Peek(items) == IF Len(items) > 0 THEN items[Len(items)] ELSE None

\* a pop that returns the top and leaves it on the stack
Pop_KeepsTop(items) == items

\* Stack.pop()
Pop(items) == SubSeq(items, 1, Len(items) - 1)

\* Stack.remove(item): drops the first occurrence
RECURSIVE Remove(_, _)
Remove(items, item) ==
  IF items = <<>> THEN <<>>
  ELSE IF Head(items) = item THEN Tail(items)
  ELSE <<Head(items)>> \o Remove(Tail(items), item)

Position(card, where, index, depth) ==
  [card |-> card, where |-> where, index |-> index, depth |-> depth, weight |-> 0]

(***************************************************************************)
(* The deal.  random_generator keeps a 31-bit state; it is held here as    *)
(* (hi, lo) = (state >> 16, state & 0xFFFF) so that                        *)
(* (state * 214013 + 2531011) & 0x7FFFFFFF is computed exactly:            *)
(* 214013 = 3 * 65536 + 17405 and 2531011 = 38 * 65536 + 40643.            *)
(***************************************************************************)
LcgSeed(s) == [hi |-> (s \div 65536) % 32768, lo |-> s % 65536]

LcgNext(st) ==
  LET t == st.lo * 17405 + 40643
  IN  [hi |-> (st.hi * 17405 + st.lo * 3 + 38 + (t \div 65536)) % 32768,
       lo |-> t % 65536]

\* the value the generator yields: seed >> 16
LcgYield(st) == st.hi

\* for i, r in zip(range(N_CARDS), rnd): swap deck[i], deck[j]  (deck is 1-based here)
RECURSIVE Shuffle(_, _, _)
Shuffle(deck, st, i) ==
  IF i >= N_CARDS THEN deck
  ELSE LET st1 == LcgNext(st)
           r == LcgYield(st1)
           j == (N_CARDS - 1) - (r % (N_CARDS - i))
           swapped == [deck EXCEPT ![i + 1] = deck[j + 1], ![j + 1] = deck[i + 1]]
       IN  Shuffle(swapped, st1, i + 1)

\* the shuffled deck as cards
DealCards(s) ==
  LET deck0 == [k \in 1..N_CARDS |-> N_CARDS - k]
      deck == Shuffle(deck0, LcgSeed(s), 0)
  IN  [k \in 1..N_CARDS |-> Card(deck[k] % N_SUITS, deck[k] \div N_SUITS)]

(***************************************************************************)
(* The game object: a record of the fields above.                          *)
(***************************************************************************)
NoFile == <<"<no file>">>

Str_QUIT == <<"Q", "U", "I", "T">>
Str_REPLAY == <<"R", "E", "P", "L", "A", "Y">>
Str_UNDO == <<"U", "N", "D", "O">>
Str_ZAP == <<"Z", "A", "P">>
Str_FOUNDATION == <<"F", "O", "U", "N", "D", "A", "T", "I", "O", "N">>
Str_OPEN == <<"O", "P", "E", "N">>
Str_CASCADE == <<"C", "A", "S", "C", "A", "D", "E">>

\* what the engine prints, by kind
OUT_PLAY == "play"
OUT_MOVE == "move"
OUT_BUILD == "build"
OUT_NOT_PLAYABLE == "CARD NOT PLAYABLE"
OUT_ILLEGAL == "ILLEGAL MOVE"
OUT_NO_OPEN == "NO OPEN CELLS"
OUT_GARBLE == "incomprehsible garble"
OUT_HUH == "huh?"
OUT_BYE == "bye."
OUT_WINNING == "#WINNING"

Say(g, msg) == [g EXCEPT !.out = Append(@, msg)]

\* an exception no handler of the program catches
Raise(g, exc) == [g EXCEPT !.pc = exc]

\* the seeds the games explored are constructed with: a deal whose spades
\* ace to six lie on top of the cascades, and the default deal
PlaySeeds == {73091}

OpenSeeds == {DEFAULT_SEED}

\* the seed of the game that is played by ScriptTokens
ScriptSeeds == {462}

Seeds == PlaySeeds \cup OpenSeeds \cup ScriptSeeds

\* the cascades reset deals: card i of the shuffled deck goes to cascade i % 8
DealtCascades(s) ==
  LET cards == DealCards(s)
      height(c) == (N_CARDS - c + N_CASCADES - 1) \div N_CASCADES
  IN  [c \in 0..(N_CASCADES - 1) |->
        [k \in 1..height(c) |-> cards[(k - 1) * N_CASCADES + c + 1]]]

\* the layout reset builds: repr(card) -> Position(card, CASCADE, s, depth)
DealtLayout(s) ==
  LET cards == DealCards(s)
      names == {repr_card(cards[k]) : k \in 1..N_CARDS}
  IN  [n \in names |->
        LET i == (CHOOSE k \in 1..N_CARDS : repr_card(cards[k]) = n) - 1
        IN  Position(cards[i + 1], WHERE_CASCADE, i % N_CASCADES, i \div N_CASCADES)]

\* the deals of the seeds explored, computed once
Dealt == [s \in Seeds |-> [cascades |-> DealtCascades(s), layout |-> DealtLayout(s)]]

\* a reset that forgets self.open = Stack()
reset_KeepsOpen(g, s) ==
  [g EXCEPT
    !.seed = s,
    !.moves = <<>>,
    !.applied = 0,
    !.fond = [f \in 0..(N_SUITS - 1) |-> <<>>],
    !.cascades = IF s \in Seeds THEN Dealt[s].cascades ELSE DealtCascades(s),
    !.layout = IF s \in Seeds THEN Dealt[s].layout ELSE DealtLayout(s)]

\* reset(seed): every field of the game is rebuilt from the seed
reset(g, s) ==
  [g EXCEPT
    !.seed = s,
    !.moves = <<>>,
    !.applied = 0,
    !.open = <<>>,
    !.fond = [f \in 0..(N_SUITS - 1) |-> <<>>],
    !.cascades = IF s \in Seeds THEN Dealt[s].cascades ELSE DealtCascades(s),
    !.layout = IF s \in Seeds THEN Dealt[s].layout ELSE DealtLayout(s)]

\* Game(seed): the object after construction
NewGame(s) ==
  reset([seed |-> s, moves |-> <<>>, applied |-> 0, open |-> <<>>, fond |-> <<>>,
         cascades |-> <<>>, layout |-> <<>>, logfile |-> NoFile,
         pc |-> "run", out |-> <<>>, cmd |-> ""], s)

\* a test_win whose flag is overwritten at every card: quick_win = gradient >= 0
test_win_LastGradient(g, verbose) ==
  LET casc == g.cascades
      last == CHOOSE c \in DOMAIN casc :
                /\ casc[c] # <<>>
                /\ \A d \in DOMAIN casc : d > c => casc[d] = <<>>
      items == casc[last]
      n == Len(items)
  IN  [result |-> IF \A c \in DOMAIN casc : casc[c] = <<>> THEN TRUE
                  ELSE IF n = 1 THEN N_RANKS - items[1].rank >= 0
                  ELSE items[n - 1].rank - items[n].rank >= 0,
       printed |-> <<>>]

\* a test_win that sets quick_win = True anew for every cascade
test_win_PerCascade(g, verbose) ==
  LET items == g.cascades[N_CASCADES - 1]
  IN  [result |-> \A k \in 2..Len(items) : items[k - 1].rank - items[k].rank >= 0,
       printed |-> <<>>]

\* test_win: the result, and what the verbose flag prints
test_win(g, verbose) ==
  LET casc == g.cascades
      gradient(items, k) ==
        (IF k = 1 THEN N_RANKS ELSE items[k - 1].rank) - items[k].rank
      quick_win == \A c \in DOMAIN casc : \A k \in 1..Len(casc[c]) :
                     ~(gradient(casc[c], k) < 0)
  IN  [result |-> quick_win,
       printed |-> IF verbose
                   THEN [c \in DOMAIN casc |->
                          [k \in 1..Len(casc[c]) |->
                            <<repr_card(casc[c][k]), gradient(casc[c], k)>>]]
                   ELSE <<>>]

\* "REPLAY " + "; ".join(self.moves)
SerializeLog(ms) == Str_REPLAY \o <<" ">> \o StrJoin(<<";", " ">>, ms)

\* a log_move that rewrites freecell.log and leaves self.moves alone
log_move_FileOnly(g, move) == [g EXCEPT !.logfile = SerializeLog(Append(g.moves, move))]

\* log_move: append to the log and rewrite freecell.log
log_move(g, move) ==
  LET ms == Append(g.moves, move)
  IN  [g EXCEPT !.moves = ms, !.logfile = SerializeLog(ms)]

SetPosition(g, card, where, index, depth) ==
  [g EXCEPT !.layout[repr_card(card)] = Position(card, where, index, depth)]

\* a do_play_foundation that pushes onto the pile position.index names (0)
do_play_foundation_FirstPile(g, move, card) ==
  LET g1 == Say(g, OUT_PLAY)
      g2 == [g1 EXCEPT !.fond[0] = Append(@, card), !.applied = @ + 1]
      g3 == [g2 EXCEPT !.layout[repr_card(card)] = Position(card, WHERE_FOUNDATION, 0, 0)]
  IN  [g3 EXCEPT !.moves = Append(@, move),
                 !.logfile = SerializeLog(Append(g3.moves, move))]

\* do_play_foundation (the caller has removed the card from its source)
do_play_foundation(g, move, card) ==
  LET g1 == Say(g, OUT_PLAY)
      g2 == [g1 EXCEPT !.fond[card.suit] = Append(@, card), !.applied = @ + 1]
      g3 == SetPosition(g2, card, WHERE_FOUNDATION, 0, 0)
  IN  log_move(g3, move)

try_play_foundation(g, move, card_name) ==
  LET position == g.layout[card_name]
      card == position.card
      f == g.fond[card.suit]
      current_c == g.cascades[position.index]
  IN  IF ~(f = <<>> /\ card.rank = 0) /\ f = <<>>
      THEN Raise(g, "AttributeError")      \* f.peek() is None: None.rank
      ELSE IF (f = <<>> /\ card.rank = 0) \/ Peek(f).rank = card.rank - 1
      THEN IF position.where = WHERE_CASCADE
           THEN IF Peek(current_c) = card
                THEN do_play_foundation(
                       [g EXCEPT !.cascades[position.index] = Pop(@)], move, card)
                ELSE Say(g, OUT_NOT_PLAYABLE)
           ELSE IF position.where = WHERE_OPEN
           THEN do_play_foundation([g EXCEPT !.open = Remove(@, card)], move, card)
           ELSE Say(g, OUT_NOT_PLAYABLE)
      ELSE Say(g, OUT_ILLEGAL)

do_move_open_cell(g, move, card) ==
  LET g1 == Say(g, OUT_MOVE)
      g2 == [g1 EXCEPT !.open = Append(@, card), !.applied = @ + 1]
      g3 == SetPosition(g2, card, WHERE_OPEN, 0, 0)
  IN  log_move(g3, move)

\* a try_move_open_cell that pops before it looks: if current_c.pop() == card
try_move_open_cell_PopsFirst(g, move, card_name) ==
  LET position == g.layout[card_name]
      card == position.card
      current_c == g.cascades[position.index]
      popped == [g EXCEPT !.cascades[position.index] = Pop(@)]
  IN  IF Len(g.open) <= N_OPEN
      THEN IF position.where = WHERE_CASCADE
           THEN IF Peek(current_c) = card
                THEN do_move_open_cell(popped, move, card)
                ELSE Say(popped, OUT_NOT_PLAYABLE)
           ELSE Say(g, OUT_ILLEGAL)
      ELSE Say(g, OUT_NO_OPEN)

\* a try_move_open_cell that takes a card of a foundation back to an open cell
try_move_open_cell_FromFoundation(g, move, card_name) ==
  LET position == g.layout[card_name]
      card == position.card
      current_c == g.cascades[position.index]
  IN  IF Len(g.open) <= N_OPEN
      THEN IF position.where = WHERE_CASCADE
           THEN IF Peek(current_c) = card
                THEN do_move_open_cell(
                       [g EXCEPT !.cascades[position.index] = Pop(@)], move, card)
                ELSE Say(g, OUT_NOT_PLAYABLE)
           ELSE IF position.where = WHERE_FOUNDATION /\ Peek(g.fond[card.suit]) = card
           THEN do_move_open_cell([g EXCEPT !.fond[card.suit] = Pop(@)], move, card)
           ELSE Say(g, OUT_ILLEGAL)
      ELSE Say(g, OUT_NO_OPEN)

try_move_open_cell(g, move, card_name) ==
  LET position == g.layout[card_name]
      card == position.card
      current_c == g.cascades[position.index]
  IN  IF Len(g.open) <= N_OPEN
      THEN IF position.where = WHERE_CASCADE
           THEN IF Peek(current_c) = card
                THEN do_move_open_cell(
                       [g EXCEPT !.cascades[position.index] = Pop(@)], move, card)
                ELSE Say(g, OUT_NOT_PLAYABLE)
           ELSE Say(g, OUT_ILLEGAL)
      ELSE Say(g, OUT_NO_OPEN)

\* a do_build_cascade that takes the depth to be len(c), not len(c) - 1
do_build_cascade_DepthLen(g, move, card, c_index) ==
  LET g1 == Say(g, OUT_BUILD)
      g2 == [g1 EXCEPT !.cascades[c_index] = Append(@, card), !.applied = @ + 1]
      g3 == SetPosition(g2, card, WHERE_CASCADE, c_index, Len(g2.cascades[c_index]))
  IN  log_move(g3, move)

\* do_build_cascade; c_index is self.cascades.index(c), the place of the
\* destination Stack object in the list
do_build_cascade(g, move, card, c_index) ==
  LET g1 == Say(g, OUT_BUILD)
      g2 == [g1 EXCEPT !.cascades[c_index] = Append(@, card), !.applied = @ + 1]
      g3 == SetPosition(g2, card, WHERE_CASCADE, c_index, Len(g2.cascades[c_index]) - 1)
  IN  log_move(g3, move)

\* list indexing: a negative index counts from the end
ListIndexOk(n, i) == (0 - n) <= i /\ i < n

ListIndex(n, i) == IF i < 0 THEN i + n ELSE i

\* try_build_cascade, entered with an index self.cascades accepts
try_build_cascade(g, move, card_name, dest_index) ==
  LET position == g.layout[card_name]
      card == position.card
      c_index == ListIndex(N_CASCADES, dest_index)
      c == g.cascades[c_index]
      current_c == g.cascades[position.index]
  IN  IF c = <<>> \/ can_stack(card, Peek(c))
      THEN IF position.where = WHERE_CASCADE
           THEN IF Peek(current_c) = card
                THEN do_build_cascade(
                       [g EXCEPT !.cascades[position.index] = Pop(@)], move, card, c_index)
                ELSE Say(g, OUT_NOT_PLAYABLE)
           ELSE IF position.where = WHERE_OPEN
           THEN do_build_cascade([g EXCEPT !.open = Remove(@, card)], move, card, c_index)
           ELSE Say(g, OUT_NOT_PLAYABLE)
      ELSE Say(g, OUT_ILLEGAL)

\* quit_loop: sys.exit(0)
quit_loop(g) == [Say(g, OUT_BYE) EXCEPT !.pc = "exit"]

show_error(g) == Say(g, OUT_GARBLE)

\* line = raw_line.strip().upper().split(" ")
Tokens(raw_line) == StrSplit(StrUpper(StrStrip(raw_line)), " ")

\* the branch one_line takes on the first token
CommandKind(first) ==
  IF StartsWith(Str_QUIT, first) THEN "QUIT"
  ELSE IF StartsWith(Str_REPLAY, first) THEN "REPLAY"
  ELSE IF StartsWith(Str_UNDO, first) THEN "UNDO"
  ELSE IF StartsWith(Str_ZAP, first) THEN "ZAP"
  ELSE "MOVE"

RECURSIVE one_line(_, _)
RECURSIVE replay_moves(_, _)
RECURSIVE ReplayEntries(_, _)

\* one_line(raw_line).  IndexError and KeyError end in show_error; any other
\* exception, and SystemExit, leave through every caller.
one_line(g, raw_line) ==
  LET line == Tokens(raw_line)
      move == StrJoin(<<" ">>, line)
      kind == CommandKind(line[1])
      done ==
      IF kind = "QUIT" THEN quit_loop(g)
      ELSE IF kind = "REPLAY"
      THEN replay_moves(g, StrJoin(<<" ">>, Tail(line)))
      ELSE IF kind = "UNDO"
      THEN LET log_moves == StrJoin(<<";", " ">>, SubSeq(g.moves, 1, Len(g.moves) - 1))
           IN  replay_moves(reset(g, g.seed), log_moves)
      ELSE IF kind = "ZAP" THEN reset(g, g.seed)
      ELSE IF Len(line) < 2 THEN show_error(g)            \* line[1]: IndexError
      ELSE LET card_name == line[1]
               dest_where == line[2]
           IN  IF card_name \notin DOMAIN g.layout THEN show_error(g)
               ELSE IF StartsWith(Str_FOUNDATION, dest_where)
               THEN try_play_foundation(g, move, card_name)
               ELSE IF StartsWith(Str_OPEN, dest_where)
               THEN try_move_open_cell(g, move, card_name)
               ELSE IF StartsWith(Str_CASCADE, dest_where)
               THEN IF Len(line) < 3 THEN show_error(g)   \* line[2]: IndexError
                    ELSE IF ~IntOk(line[3]) THEN Raise(g, "ValueError")
                    ELSE IF ~ListIndexOk(N_CASCADES, IntVal(line[3]))
                    THEN show_error(g)                    \* self.cascades[dest_index]
                    ELSE try_build_cascade(g, move, card_name, IntVal(line[3]))
               ELSE Say(g, OUT_HUH)
  IN  [done EXCEPT !.cmd = kind]

\* replay_moves: for log_line in log_moves.split(";"): self.one_line(log_line)
ReplayEntries(g, entries) ==
  IF entries = <<>> \/ g.pc # "run" THEN g
  ELSE IF Len(entries) = 1 THEN one_line(g, entries[1])
  ELSE LET h == Len(entries) \div 2
       IN  ReplayEntries(ReplayEntries(g, SubSeq(entries, 1, h)),
                         SubSeq(entries, h + 1, Len(entries)))

replay_moves(g, log_moves) == ReplayEntries(g, StrSplit(log_moves, ";"))

(***************************************************************************)
(* The program as a state machine: Game(seed), then repl().                *)
(***************************************************************************)
\* the game object held in the variables
G ==
  [seed |-> seed, moves |-> moves, applied |-> applied, open |-> open, fond |-> fond,
   cascades |-> cascades, layout |-> layout, logfile |-> logfile, pc |-> pc, out |-> out,
   cmd |-> cmd]

\* the variables after the step become the game object g
Becomes(g) ==
  /\ seed' = g.seed
  /\ moves' = g.moves
  /\ applied' = g.applied
  /\ open' = g.open
  /\ fond' = g.fond
  /\ cascades' = g.cascades
  /\ layout' = g.layout
  /\ logfile' = g.logfile
  /\ pc' = g.pc
  /\ out' = g.out
  /\ cmd' = g.cmd

\* one turn of repl(): the win test, then one line of input drawn from lines
\* (raw_input raising EOFError when eof)
repl(lines, eof) ==
  LET g0 == [G EXCEPT !.out = <<>>]
  IN  IF test_win(g0, TRUE).result
      THEN Becomes([quit_loop(Say(g0, OUT_WINNING)) EXCEPT !.cmd = "WIN"])
      ELSE IF eof THEN Becomes([quit_loop(g0) EXCEPT !.cmd = "EOF"])
      ELSE \E raw_line \in lines : Becomes(one_line(g0, raw_line))

(***************************************************************************)
(* Input lines.                                                            *)
(***************************************************************************)
\* Two sessions are explored.  The game of PlaySeeds takes every kind of
\* command, with a log of at most MaxMoves moves; to-foundation and to-cascade
\* commands name the cards of rank below CmdRanks, to-open-cell commands those
\* of rank below OpenRanks, and the to-cascade commands go to the last
\* IndexCount cascades.  The game of OpenSeeds fills the open cells: its
\* commands name the cards dealt to the first OpenCascades cascades, with a
\* log of at most MaxOpenMoves moves.
MaxMoves == 2

CmdRanks == 5

OpenRanks == 2

MaxOpenMoves == 6

OpenCascades == 2

IndexCount == 2

Words(tokens) == StrJoin(<<" ">>, tokens)

NamesBelow(r) == {repr_card(c) : c \in {d \in Cards : d.rank < r}}

\* a name no card has
NoSuchCard == <<"1", "C">>

\* the card the malformed lines name
BadName == repr_card(Card(3, 0))

\* cascade index tokens: the indices of the last IndexCount cascades, and the
\* last cascade counted from the end
IndexTokens ==
  {<<DIGITS[k]>> : k \in (N_CASCADES - IndexCount + 1)..N_CASCADES} \cup {<<"-", "1">>}

\* to-foundation lines for the aces with one more token after the destination
TrailLines == {Words(<<n, <<"F">>, <<";", "Z">>>>) : n \in NamesBelow(1)}

MoveLines ==
  {Words(<<n, <<"F">>>>) : n \in NamesBelow(CmdRanks)}
    \cup {Words(<<n, <<"O">>>>) : n \in NamesBelow(OpenRanks)}
    \cup {Words(<<n, <<"C">>, i>>) : n \in NamesBelow(CmdRanks), i \in IndexTokens}
    \cup TrailLines

\* lines that are no well-formed move
BadLines ==
  {Words(<<BadName>>), Words(<<BadName, <<"C">>>>), Words(<<BadName, <<"X">>>>),
   Words(<<BadName, <<"C">>, <<"X">>>>), Words(<<BadName, <<"C">>, <<"8">>>>),
   Words(<<BadName, <<"C">>, <<"-", "9">>>>),
   Words(<<NoSuchCard, <<"F">>>>), Words(<<NoSuchCard>>)}

\* the cards the game of OpenSeeds is asked to move: to an open cell, or onto
\* the last of the first OpenCascades cascades
OpenNames ==
  {repr_card(Dealt[t[1]].cascades[t[2]][t[3]]) :
     t \in {u \in OpenSeeds \X (0..(N_CASCADES - 1)) \X (1..N_CARDS) :
              u[2] < OpenCascades /\ u[3] <= Len(Dealt[u[1]].cascades[u[2]])}}

OpenLines ==
  {Words(<<n, <<"O">>>>) : n \in OpenNames}
    \cup {Words(<<n, <<"C">>, <<DIGITS[OpenCascades]>>>>) : n \in OpenNames}

\* The game of ScriptSeeds is played by a fixed sequence of legal moves, one
\* line per turn, that uses at most N_OPEN open cells and sorts every cascade.
ScriptTokens ==
  <<
    <<<<"4", "D">>, <<"C">>, <<"7">>>>, <<<<"3", "S">>, <<"C">>, <<"2">>>>, <<<<"A", "S">>, <<"F">>>>,
    <<<<"6", "D">>, <<"O">>>>, <<<<"3", "C">>, <<"C">>, <<"7">>>>, <<<<"A", "C">>, <<"F">>>>,
    <<<<"6", "D">>, <<"C">>, <<"1">>>>, <<<<"2", "H">>, <<"C">>, <<"2">>>>, <<<<"J", "S">>, <<"O">>>>,
    <<<<"6", "C">>, <<"O">>>>, <<<<"5", "D">>, <<"C">>, <<"5">>>>, <<<<"6", "C">>, <<"C">>, <<"3">>>>,
    <<<<"A", "D">>, <<"F">>>>, <<<<"T", "C">>, <<"C">>, <<"6">>>>, <<<<"K", "S">>, <<"O">>>>,
    <<<<"9", "S">>, <<"O">>>>, <<<<"7", "S">>, <<"O">>>>, <<<<"A", "H">>, <<"F">>>>,
    <<<<"2", "H">>, <<"F">>>>, <<<<"3", "H">>, <<"F">>>>, <<<<"2", "S">>, <<"F">>>>,
    <<<<"3", "S">>, <<"F">>>>, <<<<"4", "H">>, <<"F">>>>, <<<<"7", "H">>, <<"C">>, <<"4">>>>,
    <<<<"6", "C">>, <<"C">>, <<"4">>>>, <<<<"7", "S">>, <<"C">>, <<"3">>>>, <<<<"2", "C">>, <<"F">>>>,
    <<<<"8", "H">>, <<"O">>>>, <<<<"3", "D">>, <<"C">>, <<"0">>>>, <<<<"8", "H">>, <<"C">>, <<"2">>>>,
    <<<<"7", "S">>, <<"C">>, <<"2">>>>, <<<<"5", "D">>, <<"C">>, <<"4">>>>, <<<<"6", "S">>, <<"C">>, <<"3">>>>,
    <<<<"K", "H">>, <<"O">>>>, <<<<"9", "S">>, <<"C">>, <<"5">>>>, <<<<"3", "C">>, <<"F">>>>,
    <<<<"4", "D">>, <<"O">>>>, <<<<"5", "C">>, <<"C">>, <<"1">>>>, <<<<"4", "D">>, <<"C">>, <<"1">>>>,
    <<<<"2", "D">>, <<"F">>>>, <<<<"T", "H">>, <<"O">>>>, <<<<"3", "D">>, <<"F">>>>,
    <<<<"4", "C">>, <<"F">>>>, <<<<"6", "S">>, <<"C">>, <<"0">>>>, <<<<"J", "S">>, <<"C">>, <<"3">>>>,
    <<<<"T", "H">>, <<"C">>, <<"3">>>>, <<<<"9", "S">>, <<"C">>, <<"3">>>>, <<<<"T", "D">>, <<"O">>>>,
    <<<<"9", "H">>, <<"C">>, <<"6">>>>, <<<<"8", "D">>, <<"C">>, <<"3">>>>, <<<<"5", "H">>, <<"F">>>>,
    <<<<"K", "H">>, <<"C">>, <<"5">>>>, <<<<"4", "D">>, <<"F">>>>, <<<<"5", "C">>, <<"F">>>>,
    <<<<"6", "D">>, <<"C">>, <<"2">>>>, <<<<"7", "C">>, <<"C">>, <<"3">>>>, <<<<"Q", "S">>, <<"C">>, <<"5">>>>,
    <<<<"Q", "H">>, <<"O">>>>, <<<<"J", "C">>, <<"O">>>>, <<<<"4", "S">>, <<"F">>>>,
    <<<<"K", "S">>, <<"C">>, <<"1">>>>, <<<<"Q", "H">>, <<"C">>, <<"1">>>>, <<<<"J", "C">>, <<"C">>, <<"1">>>>,
    <<<<"T", "D">>, <<"C">>, <<"1">>>>, <<<<"9", "H">>, <<"O">>>>, <<<<"T", "C">>, <<"O">>>>,
    <<<<"J", "D">>, <<"C">>, <<"5">>>>, <<<<"J", "H">>, <<"O">>>>
  >>

ScriptLine(k) == Words(ScriptTokens[k])

MoveCmd ==
  pc = "run" /\ seed \in PlaySeeds /\ Len(moves) < MaxMoves /\ repl(MoveLines, FALSE)

OpenCmd ==
  pc = "run" /\ seed \in OpenSeeds /\ Len(moves) < MaxOpenMoves /\ repl(OpenLines, FALSE)

ScriptCmd ==
  /\ pc = "run"
  /\ seed \in ScriptSeeds
  /\ Len(moves) < Len(ScriptTokens)
  /\ repl({ScriptLine(Len(moves) + 1)}, FALSE)

BadCmd == pc = "run" /\ repl(BadLines, FALSE)

UndoCmd == pc = "run" /\ repl({<<"u", "n", "d", "o">>}, FALSE)

ZapCmd == pc = "run" /\ repl({<<"Z">>}, FALSE)

\* the user feeds freecell.log back
ReplayCmd ==
  /\ pc = "run"
  /\ logfile # NoFile
  /\ Len(moves) + Len(StrSplit(logfile, ";")) <= MaxMoves
  /\ repl({logfile}, FALSE)

QuitCmd == pc = "run" /\ repl({<<"q">>}, FALSE)

\* raw_input raises EOFError
EndOfInput == pc = "run" /\ repl({}, TRUE)

\* the variables hold the game object g
Holds(g) ==
  /\ seed = g.seed
  /\ moves = g.moves
  /\ applied = g.applied
  /\ open = g.open
  /\ fond = g.fond
  /\ cascades = g.cascades
  /\ layout = g.layout
  /\ logfile = g.logfile
  /\ pc = g.pc
  /\ out = g.out
  /\ cmd = g.cmd

Init == \E s \in PlaySeeds \cup OpenSeeds : Holds(NewGame(s))

Next ==
  MoveCmd \/ OpenCmd \/ BadCmd \/ UndoCmd \/ ZapCmd \/ ReplayCmd \/ QuitCmd \/ EndOfInput

Spec == Init /\ [][Next]_vars

(***************************************************************************)
(* The scripted game: the game of ScriptSeeds played line by line, with    *)
(* UNDO, ZAP, QUIT and the end of input at every turn.                     *)
(***************************************************************************)
InitScript == \E s \in ScriptSeeds : Holds(NewGame(s))

NextScript == ScriptCmd \/ UndoCmd \/ ZapCmd \/ QuitCmd \/ EndOfInput

SpecScript == InitScript /\ [][NextScript]_vars

(***************************************************************************)
(* The win test on its own: test_win run on cascades that hold up to       *)
(* WinLen cards of WinPool, split over two neighbouring cascades.          *)
(***************************************************************************)
WinLen == 3

WinPool == {Card(0, 12), Card(1, 11), Card(2, 0), Card(3, 12)}

WinSeqs ==
  UNION {{q \in [1..n -> WinPool] : \A i, j \in 1..n : i # j => q[i] # q[j]} :
           n \in 0..WinLen}

InitWin ==
  \E q \in WinSeqs, p \in 0..WinLen, a \in 0..(N_CASCADES - 1), junk \in BOOLEAN :
    /\ p <= Len(q)
    /\ seed = DEFAULT_SEED
    /\ moves = <<>>
    /\ applied = 0
    /\ open = IF junk THEN <<Card(0, 0)>> ELSE <<>>
    /\ fond = [f \in 0..(N_SUITS - 1) |-> IF junk /\ f = 1 THEN <<Card(1, 0)>> ELSE <<>>]
    /\ cascades = [c \in 0..(N_CASCADES - 1) |->
                     IF c = a THEN SubSeq(q, 1, p)
                     ELSE IF c = (a + 1) % N_CASCADES THEN SubSeq(q, p + 1, Len(q))
                     ELSE <<>>]
    /\ layout = <<>>
    /\ logfile = NoFile
    /\ pc = "run"
    /\ out = <<>>
    /\ cmd = ""

NextWin == EndOfInput

SpecWin == InitWin /\ [][NextWin]_vars

(***************************************************************************)
(* The claims.                                                             *)
(***************************************************************************)
\* every card the three kinds of container hold, in one sequence
RECURSIVE Flatten(_, _)
Flatten(piles, k) ==
  IF k > Len(piles) THEN <<>> ELSE piles[k] \o Flatten(piles, k + 1)

Held ==
  Flatten([c \in 1..N_CASCADES |-> cascades[c - 1]], 1)
    \o open \o Flatten([f \in 1..N_SUITS |-> fond[f - 1]], 1)

\* C1 (conservation): in every reachable state each of the 52 cards is held by
\* exactly one of the cascades, the open pool and the foundations.
C1_Conservation ==
  /\ Len(Held) = N_CARDS
  /\ {Held[k] : k \in 1..Len(Held)} = Cards

\* cards in a cascade, in the open pool and on a foundation at once
C1_Witness ==
  /\ open # <<>>
  /\ \E f \in 0..(N_SUITS - 1) : fond[f] # <<>>
  /\ cmd = "MOVE"

\* C2 (undo inverse): from any state, a legal move followed by UNDO gives back
\* the cascades, open pool, foundations and position index of that state, and
\* the engine still takes commands.
C2_UndoInverse ==
  pc = "run" =>
    \A raw_line \in MoveLines \cup OpenLines :
      LET s1 == one_line([G EXCEPT !.out = <<>>], raw_line)
          s2 == one_line([s1 EXCEPT !.out = <<>>], Str_UNDO)
      IN  (s1.pc = "run" /\ Len(s1.moves) = Len(moves) + 1) =>
            /\ s2.cascades = cascades
            /\ s2.open = open
            /\ s2.fond = fond
            /\ s2.layout = layout
            /\ s2.pc = "run"

\* C3 (replay idempotence): in every reachable state, the serialized move log
\* submitted after a fresh reset of the same seed reproduces the cascades, open
\* pool, foundations, position index and move log of that state.
C3_ReplayReproduces ==
  pc = "run" =>
    LET fresh == reset([G EXCEPT !.out = <<>>], seed)
        again == one_line(fresh, SerializeLog(moves))
    IN  /\ again.cascades = cascades
        /\ again.open = open
        /\ again.fond = fond
        /\ again.layout = layout
        /\ again.moves = moves

\* C4 (no exception escapes): every command returns normally with a reported
\* outcome; the program is reading commands or has left through quit_loop.
C4_NoException == pc \in {"run", "exit"}

\* C5 (open-cell capacity): the open pool never holds more than N_OPEN cards.
C5_OpenCapacity == Len(open) <= N_OPEN

ErrorOutcomes == {OUT_NOT_PLAYABLE, OUT_ILLEGAL, OUT_NO_OPEN, OUT_GARBLE, OUT_HUH}

AcceptedOutcomes == {OUT_PLAY, OUT_MOVE, OUT_BUILD}

\* C6 (rejected commands do not mutate): a move request that ends in an error
\* outcome leaves the cascades, open pool, foundations, positions and move log
\* as they were.
C6_RejectedUnchanged ==
  [][(cmd' = "MOVE" /\ Len(out') = 1 /\ out'[1] \in ErrorOutcomes)
       => UNCHANGED <<cascades, open, fond, layout, moves>>]_vars

\* a request turned down for want of an open cell, after accepted moves
C6_Witness == cmd = "MOVE" /\ out = <<OUT_NO_OPEN>> /\ moves # <<>>

\* C7 (foundation monotonicity): the foundation of suit s holds exactly the
\* cards of suit s of ranks 0..k, bottom to top.
C7_FoundationSequential ==
  \A f \in 0..(N_SUITS - 1) : \A k \in 1..Len(fond[f]) : fond[f][k] = Card(f, k - 1)

\* a foundation two cards high, just played to
C7_Witness == \E f \in 0..(N_SUITS - 1) : Len(fond[f]) = 2 /\ out = <<OUT_PLAY>>

\* C8 (move-log accounting): the log is as long as the number of moves applied
\* since the last reset; an accepted move appends one entry and keeps the
\* earlier ones, a rejected request appends nothing.
C8_LogAccounting ==
  /\ [](Len(moves) = applied)
  /\ [][cmd' = "MOVE" =>
          IF Len(out') = 1 /\ out'[1] \in AcceptedOutcomes
          THEN Len(moves') = Len(moves) + 1 /\ SubSeq(moves', 1, Len(moves)) = moves
          ELSE moves' = moves]_vars

\* a second move accepted and logged
C8_Witness == cmd = "MOVE" /\ Len(moves) = 2 /\ out = <<OUT_BUILD>>

\* some cascade holds a card of higher rank right above one of lower rank
Ascending(casc) ==
  \E c \in DOMAIN casc : \E k \in 1..(Len(casc[c]) - 1) :
    casc[c][k + 1].rank > casc[c][k].rank

\* C9 (win detection): test_win is true exactly when no cascade holds an
\* ascending adjacent pair, whatever the verbose flag, the suits, the open pool
\* and the foundations; the loop ends on "#WINNING" exactly then.
C9_WinDetection ==
  /\ test_win(G, FALSE).result = ~Ascending(cascades)
  /\ test_win(G, TRUE).result = ~Ascending(cascades)
  /\ cmd # "" => ((cmd = "WIN") = ~Ascending(cascades))

\* the loop has reported a win on cascades that still hold two cards in a pile
C9_Witness ==
  /\ cmd = "WIN"
  /\ \E c \in DOMAIN cascades : Len(cascades[c]) >= 2

\* C10 (zap): ZAP leaves the state Game(seed) constructs for the seed the game
\* had: the dealt cascades and positions, nothing in the open pool or on the
\* foundations, an empty log, the same seed.
C10_ZapIsNewGame ==
  [][cmd' = "ZAP" =>
       LET new == NewGame(seed)
       IN  /\ seed' = seed
           /\ cascades' = new.cascades
           /\ open' = <<>>
           /\ fond' = new.fond
           /\ layout' = new.layout
           /\ moves' = <<>>
           /\ pc' = "run"]_vars

\* a ZAP after moves were logged
C10_Witness == cmd = "ZAP" /\ logfile # NoFile /\ moves = <<>>

\* the names of the cards that lie in a cascade of g below its top card
Buried(g) ==
  {n \in DOMAIN g.layout :
     /\ g.layout[n].where = WHERE_CASCADE
     /\ Peek(g.cascades[g.layout[n].index]) # g.layout[n].card}

\* C11 (not the top card): in every reachable state a to-open-cell request for
\* a card that lies in a cascade below its top yields CARD NOT PLAYABLE and no
\* other outcome, and leaves the cascades, open pool and foundations unchanged.
C11_BuriedNotPlayable ==
  pc = "run" =>
    \A n \in Buried(G) :
      LET r == one_line([G EXCEPT !.out = <<>>], Words(<<n, <<"O">>>>))
      IN  /\ r.out = <<OUT_NOT_PLAYABLE>>
          /\ r.cascades = cascades
          /\ r.open = open
          /\ r.fond = fond

\* to-foundation lines, the entries a replayed list is made of
FoundationLines == {Words(<<n, <<"F">>>>) : n \in NamesBelow(CmdRanks)}

\* entries that are invalid in g: the empty entry, the malformed lines, and the
\* to-foundation lines g turns down
InvalidEntries(g) ==
  {<<>>} \cup BadLines \cup {l \in FoundationLines : one_line(g, l).moves = g.moves}

\* C12 (replay robustness): REPLAY of a list made of an invalid entry and then
\* a legal move reports the invalid entry, skips it and applies the move: it
\* ends in the state the move alone leads to, and the engine goes on.
C12_ReplaySkipsInvalid ==
  pc = "run" =>
    LET g0 == [G EXCEPT !.out = <<>>]
    IN  \A m \in FoundationLines : \A b \in InvalidEntries(g0) :
          LET alone == one_line(g0, m)
              both == one_line(g0, Str_REPLAY \o <<" ">> \o b \o <<";", " ">> \o m)
          IN  (alone.pc = "run" /\ Len(alone.moves) = Len(moves) + 1) =>
                /\ both.pc = "run"
                /\ both.cascades = alone.cascades
                /\ both.open = alone.open
                /\ both.fond = alone.fond
                /\ both.layout = alone.layout
                /\ both.moves = alone.moves

\* index tokens that name no cascade 0..7
BadIndexTokens == {<<"-", "1">>, <<"-", "9">>, <<"8">>, <<"X">>}

\* C13 (cascade-index validation): a to-cascade request whose index token is
\* not an integer in 0..7 is reported as a malformed command and leaves the
\* game as it was; no card is moved.
C13_IndexValidated ==
  pc = "run" =>
    \A n \in NamesBelow(CmdRanks) : \A i \in BadIndexTokens :
      LET r == one_line([G EXCEPT !.out = <<>>], Words(<<n, <<"C">>, i>>))
      IN  /\ r.pc = "run"
          /\ r.out = <<OUT_GARBLE>>
          /\ r.cascades = cascades
          /\ r.open = open
          /\ r.fond = fond
          /\ r.layout = layout
          /\ r.moves = moves

\* the cards a sequence holds
Elems(items) == {items[k] : k \in 1..Len(items)}

\* C15 (position-index consistency): every one of the 52 cards has a Position,
\* and it agrees with the container that holds the card: in a cascade the card
\* is entry depth (counted from 0 at the bottom) of cascade index, in the open
\* pool it is one of the open cards, on a foundation it is in a foundation.
C15_PositionConsistent ==
  /\ DOMAIN layout = {repr_card(c) : c \in Cards}
  /\ \A n \in DOMAIN layout :
       LET p == layout[n]
       IN  /\ repr_card(p.card) = n
           /\ p.where \in {WHERE_CASCADE, WHERE_OPEN, WHERE_FOUNDATION}
           /\ p.where = WHERE_CASCADE =>
                /\ p.index \in DOMAIN cascades
                /\ p.depth + 1 \in 1..Len(cascades[p.index])
                /\ cascades[p.index][p.depth + 1] = p.card
           /\ p.where = WHERE_OPEN => p.card \in Elems(open)
           /\ p.where = WHERE_FOUNDATION =>
                \E f \in DOMAIN fond : p.card \in Elems(fond[f])

\* a card built onto another cascade than the one it was dealt to, while the
\* open pool holds a card
C15_Witness ==
  /\ open # <<>>
  /\ \E n \in DOMAIN layout :
       /\ layout[n].where = WHERE_CASCADE
       /\ layout[n].index # Dealt[seed].layout[n].index

\* C16 (foundation Position): after a successful to-foundation move of a card
\* of suit S the card's Position is where = F, index = S, depth = 0, weight = 0.
C16_FoundationPosition ==
  \A n \in DOMAIN layout :
    layout[n].where = WHERE_FOUNDATION =>
      layout[n] = Position(layout[n].card, WHERE_FOUNDATION, layout[n].card.suit, 0)

\* suits 0 and 3 are one colour class, suits 1 and 2 the other
OppositeColour(a, b) == (a.suit \in {0, 3}) # (b.suit \in {0, 3})

\* C17 (cascade-building rule): a to-cascade move is applied only if, right
\* before it, the moved card was the top of a cascade or in the open pool and
\* the destination was empty or topped by a card one rank higher of the
\* opposite colour class; after it the card is the top of the destination.
C17_BuildRule ==
  [][(cmd' = "MOVE" /\ out' = <<OUT_BUILD>>) =>
       \E card \in Cards : \E d \in DOMAIN cascades :
         /\ \/ card \in Elems(open)
            \/ \E c \in DOMAIN cascades : cascades[c] # <<>> /\ Peek(cascades[c]) = card
         /\ \/ cascades[d] = <<>>
            \/ /\ Peek(cascades[d]).rank = card.rank + 1
               /\ OppositeColour(Peek(cascades[d]), card)
         /\ cascades'[d] = Append(cascades[d], card)
         /\ Peek(cascades'[d]) = card]_vars

\* a card built on a cascade from the open pool
C17_Witness ==
  /\ cmd = "MOVE"
  /\ out = <<OUT_BUILD>>
  /\ \E k \in 1..(Len(moves) - 1) :
       moves[k] = Words(<<SubSeq(moves[Len(moves)], 1, 2), <<"O">>>>)

\* C19 (termination): quit_loop ends the session only on QUIT, on end of input
\* or on a detected win; no UNDO, ZAP, REPLAY or move command ends it.
C19_EndsOnlyOnQuit ==
  [][pc' = "exit" => cmd' \in {"QUIT", "EOF", "WIN"}]_vars

\* C20 (foundations absorb): a move command leaves every card that is on a
\* foundation where it is, with the Position it has; a card leaves a
\* foundation only in a step that resets the game.
C20_FoundationsAbsorb ==
  [][/\ cmd' = "MOVE" =>
          \A f \in DOMAIN fond : \A k \in 1..Len(fond[f]) :
            /\ Len(fond'[f]) >= k
            /\ fond'[f][k] = fond[f][k]
            /\ layout'[repr_card(fond[f][k])] = layout[repr_card(fond[f][k])]
     /\ (\E f \in DOMAIN fond : ~(Elems(fond[f]) \subseteq Elems(fond'[f])))
          => cmd' \in {"UNDO", "ZAP", "REPLAY"}]_vars

\* a move request for a card that lies on a foundation has been turned down
C20_Witness ==
  /\ cmd = "MOVE"
  /\ Len(out) = 1
  /\ out[1] \in ErrorOutcomes
  /\ \E f \in DOMAIN fond : fond[f] # <<>>

\* C18 as claimed (win only when all cards are played): the win test reports a
\* win in a reachable state only when every cascade and the open pool are
\* empty.
C18_WinOnlyWhenAllPlayed ==
  test_win(G, FALSE).result =>
    /\ \A c \in DOMAIN cascades : cascades[c] = <<>>
    /\ open = <<>>

\* C18 as amended (win only when every cascade descends): the win test reports
\* a win in a reachable state, and the loop ends on "#WINNING", only when no
\* cascade holds a card of higher rank right above one of lower rank.
C18_WinOnlyWhenDescending ==
  /\ test_win(G, FALSE).result => ~Ascending(cascades)
  /\ cmd = "WIN" => ~Ascending(cascades)

\* the loop has ended on a win with cards left in the cascades and open cells
C18_Witness ==
  /\ cmd = "WIN"
  /\ pc = "exit"
  /\ open # <<>>
  /\ \E c \in DOMAIN cascades : cascades[c] # <<>>
  /\ Len(moves) = Len(ScriptTokens)

====
